---- MODULE Spec2Model ----
(***************************************************************************)
(* A model of the LookML language server's semantic pipeline:              *)
(*   source text -> LookMLASTParser.parseContent -> WorkspaceDocument      *)
(*   -> SemanticAnalyzer.analyze -> SemanticModel -> definition/reference  *)
(*   lookup.                                                               *)
(*                                                                         *)
(* A source text is represented by the declarations it holds, in source    *)
(* order (a view block, the field blocks inside it, ...), each with the    *)
(* $p position 4-tuple the external parser reports for it (<<>> when the   *)
(* position metadata is missing).  parseContent turns the declarations     *)
(* into the name-keyed maps of the AST; a name-keyed map is a sequence of  *)
(* nodes with distinct names, in key insertion order.                      *)
(***************************************************************************)
EXTENDS Naturals, Sequences, FiniteSets, TLC

VARIABLES
  documents,      \* LookMLWorkspace.documents
  semanticModel,  \* LookMLWorkspace.semanticModel
  lastCall,       \* the mutating call that returned last, and its uri
  scan,           \* where workspace.initialize() stands
  editor,         \* the text of each document open in the editor
  published       \* the diagnostics last sent to the editor, per uri

vars == <<documents, semanticModel, lastCall, scan, editor, published>>

----------------------------------------------------------------------------
(* Bounds *)

\* Date.now() values an update can observe
MaxTime == 1
\* cursor positions range over lines 0..MaxLine and characters 0..MaxChar
MaxLine == 10
MaxChar == 3

Times == 1..MaxTime
Cursors == {[line |-> l, character |-> c] : l \in 0..MaxLine, c \in 0..MaxChar}

Uris == {"file:///a.lkml", "file:///b.lkml"}

----------------------------------------------------------------------------
(* Generic sequence helpers *)

RECURSIVE Concat(_)
Concat(ss) == IF ss = <<>> THEN <<>> ELSE Head(ss) \o Concat(Tail(ss))

\* [f(s[1]), f(s[2]), ...]
Map(s, f(_)) == [i \in 1..Len(s) |-> f(s[i])]

\* concatenation of f(s[1]), f(s[2]), ...
FlatMap(s, f(_)) == Concat(Map(s, f))

Range(s) == {s[i] : i \in 1..Len(s)}

\* index of the first element satisfying P, 0 if none (Array.prototype.find)
FindIndex(s, P(_)) ==
  IF \E i \in 1..Len(s) : P(s[i])
  THEN CHOOSE i \in 1..Len(s) : P(s[i]) /\ \A j \in 1..(i - 1) : ~P(s[j])
  ELSE 0

----------------------------------------------------------------------------
(* Source texts *)

NoP == <<>>
NoSql == [present |-> FALSE, refs |-> <<>>]
\* an sql / sql_on text holding the embedded references refs, in text order
SqlText(refs) == [present |-> TRUE, refs |-> refs]
\* ${view.field}, and ${view} with field = ""
Ref(v, f) == [view |-> v, field |-> f]

FieldDecl(kind, name, p, type, sql, pk, params) ==
  [kind |-> kind, name |-> name, p |-> p, type |-> type, sql |-> sql,
   primary_key |-> pk, parameters |-> params]

ViewDecl(name, p, params, fields) ==
  [name |-> name, p |-> p, parameters |-> params, fields |-> fields]

JoinDecl(name, p, view, sqlOn, relationship) ==
  [name |-> name, p |-> p, view |-> view, sql_on |-> sqlOn,
   relationship |-> relationship]

ExploreDecl(name, p, viewName, joins) ==
  [name |-> name, p |-> p, view_name |-> viewName, joins |-> joins]

ModelDecl(name, p) == [name |-> name, p |-> p]

Text(views, explores, models) ==
  [ok |-> TRUE, error |-> "", views |-> views, explores |-> explores,
   models |-> models]

\* a text the external parser rejects with message msg
Malformed(msg) ==
  [ok |-> FALSE, error |-> msg, views |-> <<>>, explores |-> <<>>,
   models |-> <<>>]

----------------------------------------------------------------------------
(* The texts the editor sends *)

\* view: orders { dimension: id { type: number sql: ${TABLE}.id ;; }
\*                measure: count { type: count } }
OrdersText ==
  Text(<<ViewDecl("orders", <<1, 0, 9, 1>>, <<>>,
           <<FieldDecl("dimension", "id", <<2, 2, 5, 3>>, "number",
                       SqlText(<<Ref("TABLE", "")>>), FALSE, <<>>),
             FieldDecl("measure", "count", <<6, 2, 8, 3>>, "count",
                       NoSql, FALSE, <<>>)>>)>>,
       <<>>, <<>>)

\* view: customers { dimension: id {...} measure: total { sql: ${orders.id} ... } }
\* with a reference to a field of another view and to a whole view
CustomersText ==
  Text(<<ViewDecl("customers", <<0, 0, 8, 1>>, <<>>,
           <<FieldDecl("dimension", "id", <<1, 2, 3, 3>>, "number",
                       SqlText(<<Ref("TABLE", "")>>), TRUE, <<>>),
             FieldDecl("measure", "total", <<4, 2, 7, 3>>, "sum",
                       SqlText(<<Ref("orders", "id"), Ref("orders", "count"),
                                 Ref("customers", "")>>),
                       FALSE, <<>>)>>)>>,
       <<>>, <<>>)

\* a view declaring dimension id twice, and a view whose fields of several
\* kinds share names
DuplicatesText ==
  Text(<<ViewDecl("orders", <<0, 0, 4, 1>>, <<>>,
           <<FieldDecl("dimension", "id", <<1, 2, 1, 3>>, "number",
                       SqlText(<<>>), FALSE, <<>>),
             FieldDecl("dimension", "id", <<2, 2, 2, 3>>, "string",
                       SqlText(<<>>), FALSE, <<>>)>>),
         ViewDecl("customers", <<5, 0, 10, 1>>, <<>>,
           <<FieldDecl("filter", "id", <<6, 2, 6, 3>>, "", NoSql, FALSE, <<>>),
             FieldDecl("dimension", "id", <<7, 2, 7, 3>>, "number",
                       SqlText(<<>>), FALSE, <<>>),
             FieldDecl("measure", "id", <<8, 2, 8, 3>>, "count",
                       NoSql, FALSE, <<>>),
             FieldDecl("measure", "total", <<9, 2, 9, 3>>, "sum",
                       NoSql, FALSE, <<>>),
             FieldDecl("dimension_group", "total", <<9, 0, 9, 1>>, "time",
                       NoSql, FALSE, <<>>)>>)>>,
       <<>>, <<>>)

\* explore: sales { view_name: orders
\*   join: customers { view: customers sql_on: ${orders.id} = ${customers.id} ;;
\*                     relationship: many_to_one } }
ExploreText ==
  Text(<<>>,
       <<ExploreDecl("sales", <<1, 0, 8, 1>>, "orders",
           <<JoinDecl("customers", <<2, 2, 6, 3>>, "customers",
                      SqlText(<<Ref("orders", "id"), Ref("customers", "id")>>),
                      "many_to_one")>>)>>,
       <<>>)

\* an explore whose join leads back to its base view, an explore whose only
\* join names no view, and an explore without a base view
MoreExploresText ==
  Text(<<>>,
       <<ExploreDecl("loop", <<0, 0, 3, 1>>, "orders",
           <<JoinDecl("back", <<1, 2, 2, 3>>, "orders",
                      SqlText(<<Ref("orders", "id")>>), "one_to_one")>>),
         ExploreDecl("plain", <<4, 0, 6, 1>>, "customers",
           <<JoinDecl("customers", <<5, 2, 5, 3>>, "",
                      SqlText(<<Ref("customers", "id")>>), "many_to_one")>>),
         ExploreDecl("nobase", <<7, 0, 10, 1>>, "",
           <<JoinDecl("ghost", <<8, 2, 8, 3>>, "ghost", NoSql, "sideways"),
             JoinDecl("orders", <<9, 2, 9, 3>>, "orders", NoSql, "")>>)>>,
       <<>>)

\* explore: customer_analysis {
\*   join: orders { sql_on: ${customers.id} = ${orders.customer_id} ;; } }
\* the views are mentioned in the sql_on only
ReferenceFindingText ==
  Text(<<>>,
       <<ExploreDecl("customer_analysis", <<1, 0, 5, 1>>, "",
           <<JoinDecl("orders", <<2, 2, 4, 3>>, "",
                      SqlText(<<Ref("customers", "id"),
                                Ref("orders", "customer_id")>>),
                      "")>>)>>,
       <<>>)

\* a view and a field for which the parser reports no position
NoPositionText ==
  Text(<<ViewDecl("customers", NoP, <<>>,
           <<FieldDecl("dimension", "id", NoP, "number",
                       SqlText(<<Ref("TABLE", "")>>), FALSE, <<>>)>>),
         ViewDecl("orders", <<1, 0, 4, 1>>, <<>>,
           <<FieldDecl("dimension", "id", <<2, 2, 3, 3>>, "number",
                       SqlText(<<Ref("TABLE", "")>>), FALSE, <<>>)>>)>>,
       <<>>, <<>>)

\* rule violations: names, types, deprecated parameters
ViolationsText ==
  Text(<<ViewDecl("OrderItems", <<0, 0, 9, 1>>, <<"label", "fanout_on">>,
           <<FieldDecl("dimension", "Id", <<1, 2, 2, 3>>, "varchar",
                       NoSql, FALSE, <<"case_sensitive">>),
             FieldDecl("measure", "count", <<3, 2, 4, 3>>, "invalid_type",
                       SqlText(<<Ref("OrderItems", "Id")>>), FALSE, <<>>),
             FieldDecl("parameter", "p", <<5, 2, 6, 3>>, "",
                       NoSql, FALSE, <<"fanout_on">>)>>)>>,
       <<>>,
       <<ModelDecl("m", <<10, 0, 10, 3>>)>>)

\* view: test_view { dimension: id { invalid_syntax!!!
MalformedText == Malformed("Expected closing brace")

\* the empty string
EmptyText == Text(<<>>, <<>>, <<>>)

Texts == {OrdersText, CustomersText, DuplicatesText, ExploreText,
          MoreExploresText, ReferenceFindingText, NoPositionText,
          ViolationsText, MalformedText, EmptyText}

----------------------------------------------------------------------------
(* LookMLASTParser *)

ZeroPosition == <<0, 0, 0, 0>>

\* <<startLine, startChar, endLine, endChar>> of $p, all-zero without $p
extractPosition(positionData) ==
  IF Len(positionData) = 4 THEN positionData ELSE ZeroPosition

startLine(pos) == pos[1]
startChar(pos) == pos[2]
endLine(pos) == pos[3]
endChar(pos) == pos[4]

\* obj[name] = value for each declaration in order: one entry per name, at
\* the place of the name's first assignment, holding its last assignment
KeyedByName(decls) ==
  LET firsts == SelectSeq([i \in 1..Len(decls) |-> i],
                   LAMBDA i : \A j \in 1..(i - 1) : decls[j].name # decls[i].name)
      last(n) == CHOOSE i \in 1..Len(decls) :
                   /\ decls[i].name = n
                   /\ \A j \in (i + 1)..Len(decls) : decls[j].name # n
  IN [k \in 1..Len(firsts) |-> decls[last(decls[firsts[k]].name)]]

\* transformDimension, transformMeasure, transformFilter, transformParameter,
\* transformDimensionGroup: the fields the analyzer reads
transformField(d) ==
  [name |-> d.name,
   type |-> d.kind,
   position |-> extractPosition(d.p),
   parameters |-> d.parameters,
   dataType |-> IF d.kind = "dimension" THEN d.type ELSE "",
   measureType |-> IF d.kind = "measure" THEN d.type ELSE "",
   sql |-> IF d.kind \in {"dimension", "measure", "dimension_group"}
           THEN d.sql ELSE NoSql,
   primaryKey |-> d.kind = "dimension" /\ d.primary_key]

fieldsOfKind(viewData, kind) ==
  Map(KeyedByName(SelectSeq(viewData.fields, LAMBDA d : d.kind = kind)),
      transformField)

transformView(viewData) ==
  [name |-> viewData.name,
   type |-> "view",
   position |-> extractPosition(viewData.p),
   parameters |-> viewData.parameters,
   dimensions |-> fieldsOfKind(viewData, "dimension"),
   measures |-> fieldsOfKind(viewData, "measure"),
   filters |-> fieldsOfKind(viewData, "filter"),
   parameterNodes |-> fieldsOfKind(viewData, "parameter"),
   dimensionGroups |-> fieldsOfKind(viewData, "dimension_group")]

transformJoin(joinData) ==
  [name |-> joinData.name,
   type |-> "join",
   position |-> extractPosition(joinData.p),
   sqlOn |-> joinData.sql_on,
   relationship |-> joinData.relationship,
   view |-> joinData.view]

transformExplore(exploreData) ==
  [name |-> exploreData.name,
   type |-> "explore",
   position |-> extractPosition(exploreData.p),
   joins |-> Map(KeyedByName(exploreData.joins), transformJoin),
   baseView |-> exploreData.view_name]

transformModel(modelData) ==
  [name |-> modelData.name,
   type |-> "model",
   position |-> extractPosition(modelData.p)]

transformToAST(parsed) ==
  [views |-> Map(KeyedByName(parsed.views), transformView),
   explores |-> Map(KeyedByName(parsed.explores), transformExplore),
   models |-> Map(KeyedByName(parsed.models), transformModel)]

NoAST == [views |-> <<>>, explores |-> <<>>, models |-> <<>>]

\* variant: a failure result still carries an (empty) ast
parseContent_astOnFailure(content) ==
  IF content.ok
  THEN [success |-> TRUE, hasAst |-> TRUE, ast |-> transformToAST(content),
        hasError |-> FALSE, error |-> ""]
  ELSE [success |-> FALSE, hasAst |-> TRUE, ast |-> NoAST,
        hasError |-> TRUE, error |-> content.error]

\* try { parse; getPositions; transformToAST } catch { success: false, error }
parseContent(content) ==
  IF content.ok
  THEN [success |-> TRUE, hasAst |-> TRUE, ast |-> transformToAST(content),
        hasError |-> FALSE, error |-> ""]
  ELSE [success |-> FALSE, hasAst |-> FALSE, ast |-> NoAST,
        hasError |-> TRUE, error |-> content.error]

----------------------------------------------------------------------------
(* LookMLWorkspace: the document store *)

\* documents is the insertion-ordered Map<string, WorkspaceDocument>, as the
\* sequence of its values
getAllDocuments(docs) == docs

getParsedDocuments(docs) == SelectSeq(docs, LAMBDA doc : doc.hasAst)

hasDocument(docs, uri) == \E i \in 1..Len(docs) : docs[i].uri = uri

getDocument(docs, uri) == docs[CHOOSE i \in 1..Len(docs) : docs[i].uri = uri]

\* variant: the map is emptied before the entry is set
MapSet_cleared(docs, document) == <<document>>

\* Map.set: an existing key keeps its place, a new key goes last
MapSet(docs, document) ==
  IF hasDocument(docs, document.uri)
  THEN [i \in 1..Len(docs) |->
          IF docs[i].uri = document.uri THEN document ELSE docs[i]]
  ELSE Append(docs, document)

\* Map.delete
MapDelete(docs, uri) == SelectSeq(docs, LAMBDA doc : doc.uri # uri)

WorkspaceDocument(uri, content, lastModified) ==
  LET parseResult == parseContent(content)
  IN [uri |-> uri,
      content |-> content,
      hasAst |-> parseResult.success /\ parseResult.hasAst,
      ast |-> IF parseResult.success THEN parseResult.ast ELSE NoAST,
      parseResult |-> parseResult,
      lastModified |-> lastModified]

----------------------------------------------------------------------------
(* SemanticAnalyzer *)

\* variant: the key is the qualified name alone
createSymbolKey_nameOnly(type, qualifiedName) == qualifiedName

createSymbolKey(type, qualifiedName) == type \o ":" \o qualifiedName

qualified(parentName, childName) == parentName \o "." \o childName

\* /^[a-z][a-z0-9_]*$/ on the names that occur in Texts
SnakeCaseNames == {"orders", "customers", "id", "count", "total", "p", "m",
                   "sales", "loop", "plain", "nobase", "back", "ghost",
                   "customer_analysis"}

isSnakeCase(name) == name \in SnakeCaseNames

validRelationships == {"one_to_one", "one_to_many", "many_to_one", "many_to_many"}

validMeasureTypes == {"count", "count_distinct", "sum", "average", "min", "max",
                      "median", "percentile", "number", "yesno", "list"}

validDimensionTypes == {"string", "number", "int", "yesno", "tier", "date",
                        "date_time", "time", "duration", "location", "zipcode"}

deprecatedParams == {"fanout_on", "case_sensitive"}

relationshipList == "one_to_one, one_to_many, many_to_one, many_to_many"
measureTypeList ==
  "count, count_distinct, sum, average, min, max, median, percentile, number, yesno, list"
dimensionTypeList ==
  "string, number, int, yesno, tier, date, date_time, time, duration, location, zipcode"

\* A Diagnostic.  owner is not a field of the code's object: it names the
\* document under analysis when the object was created, which is what tells
\* two diagnostics of equal content apart.
createDiagnostic(owner, severity, position, message, code) ==
  [owner |-> owner, severity |-> severity, range |-> position,
   message |-> message, code |-> code, source |-> "lookml"]

NoDiagnostic == createDiagnostic("", "", ZeroPosition, "", "")

\* The analyzer's effects, in program order:
\*   diagnostics.push(diag), with addDiagnosticForUri(uri, diag) iff grouped
DiagEvent(diag, grouped) ==
  [k |-> "diag", diag |-> diag, grouped |-> grouped,
   key |-> "", uri |-> diag.owner, position |-> diag.range]

\*   addReference(symbols, key, doc, position)
RefEvent(key, uri, position) ==
  [k |-> "ref", diag |-> NoDiagnostic, grouped |-> FALSE,
   key |-> key, uri |-> uri, position |-> position]

\* a diagnostic pushed on both lists
Report(diag) == <<DiagEvent(diag, TRUE)>>

viewFields(view) ==
  view.dimensions \o view.measures \o view.filters \o view.parameterNodes
    \o view.dimensionGroups

allViews(docs) == FlatMap(getParsedDocuments(docs), LAMBDA doc : doc.ast.views)

\* the keys of viewNameToKey, dimensionQualifiedNameToKey and
\* measureQualifiedNameToKey after the symbol construction pass (the value
\* of a key is createSymbolKey of it)
\* variant: only the views of the first parsed document are known
viewNameToKey_firstDocument(docs) ==
  LET parsed == getParsedDocuments(docs)
  IN IF parsed = <<>> THEN {}
     ELSE {v.name : v \in Range(Head(parsed).ast.views)}

viewNameToKey(docs) == {v.name : v \in Range(allViews(docs))}

dimensionQualifiedNameToKey(docs) ==
  UNION {{qualified(v.name, d.name) : d \in Range(v.dimensions)} :
           v \in Range(allViews(docs))}

measureQualifiedNameToKey(docs) ==
  UNION {{qualified(v.name, m.name) : m \in Range(v.measures)} :
           v \in Range(allViews(docs))}

nameMaps(docs) ==
  [view |-> viewNameToKey(docs),
   dimension |-> dimensionQualifiedNameToKey(docs),
   measure |-> measureQualifiedNameToKey(docs)]

\* variant: ${view.field} is looked up among the dimensions only
extractAndRecordReferences_dimensionOnly(names, text, uri, position) ==
  FlatMap(text.refs, LAMBDA r :
    IF r.field # ""
    THEN (IF qualified(r.view, r.field) \in names.dimension
          THEN <<RefEvent(createSymbolKey("dimension", qualified(r.view, r.field)),
                          uri, position)>>
          ELSE <<>>)
    ELSE IF r.view \in names.view
         THEN <<RefEvent(createSymbolKey("view", r.view), uri, position)>>
         ELSE <<>>)

\* one addReference per ${view} / ${view.field} of the text that resolves
extractAndRecordReferences(names, text, uri, position) ==
  FlatMap(text.refs, LAMBDA r :
    IF r.field # ""
    THEN (IF qualified(r.view, r.field) \in names.dimension
          THEN <<RefEvent(createSymbolKey("dimension", qualified(r.view, r.field)),
                          uri, position)>>
          ELSE <<>>)
         \o
         (IF qualified(r.view, r.field) \in names.measure
          THEN <<RefEvent(createSymbolKey("measure", qualified(r.view, r.field)),
                          uri, position)>>
          ELSE <<>>)
    ELSE IF r.view \in names.view
         THEN <<RefEvent(createSymbolKey("view", r.view), uri, position)>>
         ELSE <<>>)

\* variant: a resolved name records no reference
resolveView_noReference(names, uri, name, position) ==
  IF name \in names.view
  THEN <<>>
  ELSE Report(createDiagnostic(uri, "Error", position,
                "View '" \o name \o "' not found", "undefined-view"))

\* explore.baseView / join.view: a reference on the view's symbol when
\* viewNameToKey has the name, an undefined-view Error otherwise
resolveView(names, uri, name, position) ==
  IF name \in names.view
  THEN <<RefEvent(createSymbolKey("view", name), uri, position)>>
  ELSE Report(createDiagnostic(uri, "Error", position,
                "View '" \o name \o "' not found", "undefined-view"))

joinEvents(names, uri, join) ==
  (IF join.view # "" THEN resolveView(names, uri, join.view, join.position)
   ELSE <<>>)
  \o
  (IF ~join.sqlOn.present
   THEN Report(createDiagnostic(uri, "Error", join.position,
          "Join '" \o join.name \o "' is missing sql_on condition",
          "missing-sql-on"))
   ELSE <<>>)
  \o
  (IF join.relationship # "" /\ join.relationship \notin validRelationships
   THEN Report(createDiagnostic(uri, "Error", join.position,
          "Invalid relationship '" \o join.relationship
            \o "'. Must be one of: " \o relationshipList,
          "invalid-relationship"))
   ELSE <<>>)
  \o
  (IF join.sqlOn.present
   THEN extractAndRecordReferences(names, join.sqlOn, uri, join.position)
   ELSE <<>>)

exploreEvents(names, uri, explore) ==
  (IF explore.baseView # ""
   THEN resolveView(names, uri, explore.baseView, explore.position)
   ELSE <<>>)
  \o FlatMap(explore.joins, LAMBDA join : joinEvents(names, uri, join))

\* variant: the name set is kept per field kind
duplicateFieldEvents_perKind(uri, view) ==
  LET fields == viewFields(view)
  IN FlatMap([i \in 1..Len(fields) |-> i], LAMBDA i :
       IF \E j \in 1..(i - 1) : /\ fields[j].name = fields[i].name
                                /\ fields[j].type = fields[i].type
       THEN Report(createDiagnostic(uri, "Error", fields[i].position,
              "Duplicate field name '" \o fields[i].name \o "' in view '"
                \o view.name \o "'",
              "duplicate-field"))
       ELSE <<>>)

\* nameSet.has(field.name) when the loop reaches fields[i]
duplicateFieldEvents(uri, view) ==
  LET fields == viewFields(view)
  IN FlatMap([i \in 1..Len(fields) |-> i], LAMBDA i :
       IF \E j \in 1..(i - 1) : fields[j].name = fields[i].name
       THEN Report(createDiagnostic(uri, "Error", fields[i].position,
              "Duplicate field name '" \o fields[i].name \o "' in view '"
                \o view.name \o "'",
              "duplicate-field"))
       ELSE <<>>)

measureEvents(names, uri, measure) ==
  (IF measure.measureType # "" /\ measure.measureType \notin validMeasureTypes
   THEN Report(createDiagnostic(uri, "Error", measure.position,
          "Invalid measure type '" \o measure.measureType
            \o "'. Must be one of: " \o measureTypeList,
          "invalid-measure-type"))
   ELSE <<>>)
  \o
  (IF measure.sql.present
   THEN extractAndRecordReferences(names, measure.sql, uri, measure.position)
   ELSE <<>>)

dimensionEvents(names, uri, dimension) ==
  (IF ~dimension.sql.present /\ ~dimension.primaryKey
   THEN Report(createDiagnostic(uri, "Warning", dimension.position,
          "Dimension '" \o dimension.name \o "' is missing sql parameter",
          "missing-sql"))
   ELSE <<>>)
  \o
  (IF dimension.dataType # "" /\ dimension.dataType \notin validDimensionTypes
   THEN Report(createDiagnostic(uri, "Error", dimension.position,
          "Invalid dimension type '" \o dimension.dataType
            \o "'. Must be one of: " \o dimensionTypeList,
          "invalid-dimension-type"))
   ELSE <<>>)
  \o
  (IF dimension.sql.present
   THEN extractAndRecordReferences(names, dimension.sql, uri, dimension.position)
   ELSE <<>>)

\* diagnostics.push only: the diagnostic is not added to diagnosticsByUri
checkDeprecatedParams(uri, node) ==
  FlatMap(node.parameters, LAMBDA paramName :
    IF paramName \in deprecatedParams
    THEN <<DiagEvent(createDiagnostic(uri, "Warning", node.position,
             "Parameter '" \o paramName \o "' is deprecated",
             "deprecated-parameter"), FALSE)>>
    ELSE <<>>)

namingEvents(uri, view) ==
  (IF ~isSnakeCase(view.name)
   THEN Report(createDiagnostic(uri, "Information", view.position,
          "View name '" \o view.name \o "' should use snake_case",
          "naming-convention"))
   ELSE <<>>)
  \o
  FlatMap(viewFields(view), LAMBDA field :
    IF ~isSnakeCase(field.name)
    THEN Report(createDiagnostic(uri, "Information", field.position,
           "Field name '" \o field.name \o "' should use snake_case",
           "naming-convention"))
    ELSE <<>>)

viewEvents(names, uri, view) ==
  duplicateFieldEvents(uri, view)
  \o FlatMap(view.measures, LAMBDA m : measureEvents(names, uri, m))
  \o FlatMap(view.dimensions, LAMBDA d : dimensionEvents(names, uri, d))
  \o checkDeprecatedParams(uri, view)
  \o FlatMap(viewFields(view), LAMBDA f : checkDeprecatedParams(uri, f))
  \o namingEvents(uri, view)

\* variant: the parse-error diagnostic is pushed on the flat list only
parseErrorEvents_flatOnly(docs) ==
  FlatMap(getAllDocuments(docs), LAMBDA doc :
    IF ~doc.parseResult.success /\ doc.parseResult.hasError
    THEN <<DiagEvent(createDiagnostic(doc.uri, "Error", ZeroPosition,
             "Parse error: " \o doc.parseResult.error, ""), FALSE)>>
    ELSE <<>>)

\* the parse-error pass, over all documents
parseErrorEvents(docs) ==
  FlatMap(getAllDocuments(docs), LAMBDA doc :
    IF ~doc.parseResult.success /\ doc.parseResult.hasError
    THEN Report(createDiagnostic(doc.uri, "Error", ZeroPosition,
           "Parse error: " \o doc.parseResult.error, ""))
    ELSE <<>>)

\* the cross-reference and validation pass of one document
crossReferenceEvents(names, doc) ==
  FlatMap(doc.ast.explores, LAMBDA e : exploreEvents(names, doc.uri, e))
  \o FlatMap(doc.ast.views, LAMBDA v : viewEvents(names, doc.uri, v))

usedViews(docs) ==
  UNION {({e.baseView} \cup {j.view : j \in Range(e.joins)}) \ {""} :
           e \in Range(FlatMap(getParsedDocuments(docs),
                               LAMBDA doc : doc.ast.explores))}

unusedViewEvents(docs) ==
  LET used == usedViews(docs)
  IN
  FlatMap(getParsedDocuments(docs), LAMBDA doc :
    FlatMap(doc.ast.views, LAMBDA view :
      IF view.name \notin used
      THEN Report(createDiagnostic(doc.uri, "Information", view.position,
             "View '" \o view.name \o "' is not used in any explore",
             "unused-view"))
      ELSE <<>>))

\* checkCycle(viewName) of one explore; st holds the closure's visited and
\* stack sets.  The result carries the sets as the call leaves them.
RECURSIVE checkCycle(_, _, _)
RECURSIVE checkCycleJoins(_, _, _, _)
checkCycle(explore, viewName, st) ==
  IF viewName \in st.stack THEN [result |-> TRUE, st |-> st]
  ELSE IF viewName \in st.visited THEN [result |-> FALSE, st |-> st]
  ELSE checkCycleJoins(explore, viewName, 1,
         [visited |-> st.visited \cup {viewName},
          stack |-> st.stack \cup {viewName}])

\* for (const join of Object.values(explore.joins)) from the i-th join on
checkCycleJoins(explore, viewName, i, st) ==
  IF i > Len(explore.joins)
  THEN [result |-> FALSE,
        st |-> [visited |-> st.visited, stack |-> st.stack \ {viewName}]]
  ELSE IF explore.joins[i].view # ""
       THEN LET r == checkCycle(explore, explore.joins[i].view, st)
            IN IF r.result THEN [result |-> TRUE, st |-> r.st]
               ELSE checkCycleJoins(explore, viewName, i + 1, r.st)
       ELSE checkCycleJoins(explore, viewName, i + 1, st)

hasCycle(explore) ==
  /\ explore.baseView # ""
  /\ checkCycle(explore, explore.baseView,
                [visited |-> {}, stack |-> {}]).result

cyclicJoinEvents(docs) ==
  FlatMap(getParsedDocuments(docs), LAMBDA doc :
    FlatMap(doc.ast.explores, LAMBDA explore :
      IF hasCycle(explore)
      THEN Report(createDiagnostic(doc.uri, "Warning", explore.position,
             "Cyclic dependency detected in explore '" \o explore.name \o "'",
             "cyclic-join"))
      ELSE <<>>))

\* every diagnostics.push / addDiagnosticForUri / addReference of one
\* analyze call, in program order
analyzeEvents(docs) ==
  LET names == nameMaps(docs)
  IN
  parseErrorEvents(docs)
  \o FlatMap(getParsedDocuments(docs), LAMBDA doc : crossReferenceEvents(names, doc))
  \o unusedViewEvents(docs)
  \o cyclicJoinEvents(docs)

----------------------------------------------------------------------------
(* The symbol construction pass *)

NoParent == [uri |-> "", key |-> ""]

\* createSymbol(uri, name, type, node), with the key it is stored under and
\* the identity (declaring document, key) of the symbol sym.parent points to
createSymbol(uri, name, type, node, parent) ==
  [key |-> createSymbolKey(type, name),
   name |-> name,
   type |-> type,
   declaration |-> [uri |-> uri, position |-> node.position],
   references |-> <<>>,
   parent |-> parent]

viewSymbols(uri, view) ==
  LET viewSym == createSymbol(uri, view.name, "view", view, NoParent)
      child(field) == createSymbol(uri, qualified(view.name, field.name),
                        field.type, field, [uri |-> uri, key |-> viewSym.key])
  IN <<viewSym>> \o Map(viewFields(view), child)

exploreSymbols(uri, explore) ==
  LET exploreSym == createSymbol(uri, explore.name, "explore", explore, NoParent)
      child(join) == createSymbol(uri, qualified(explore.name, join.name),
                       "join", join, [uri |-> uri, key |-> exploreSym.key])
  IN <<exploreSym>> \o Map(explore.joins, child)

\* fileSymbols of one parsed document, in push order
fileSymbols(doc) ==
  Map(doc.ast.models,
      LAMBDA model : createSymbol(doc.uri, model.name, "model", model, NoParent))
  \o FlatMap(doc.ast.views, LAMBDA view : viewSymbols(doc.uri, view))
  \o FlatMap(doc.ast.explores, LAMBDA explore : exploreSymbols(doc.uri, explore))

\* every symbols.set(key, sym) of the pass, in order
createdSymbols(docs) == FlatMap(getParsedDocuments(docs), fileSymbols)

\* symbols.get(key): the symbol the last symbols.set(key, ...) stored
storedSymbol(created, key) ==
  LET last == CHOOSE i \in 1..Len(created) :
                /\ created[i].key = key
                /\ \A j \in (i + 1)..Len(created) : created[j].key # key
  IN created[last]

\* sym.references.push({uri, position}) of addReference, for symbols.get(key)
addReference(events, key) ==
  Map(SelectSeq(events, LAMBDA e : e.k = "ref" /\ e.key = key),
      LAMBDA e : [uri |-> e.uri, position |-> e.position])

\* the symbol object created as sym, as it is at the end of analyze: only
\* the object stored in symbols under its key has received references
finalSymbol(created, events, sym) ==
  IF storedSymbol(created, sym.key).declaration.uri = sym.declaration.uri
  THEN [sym EXCEPT !.references = addReference(events, sym.key)]
  ELSE sym

diagnosticsOf(events) ==
  Map(SelectSeq(events, LAMBDA e : e.k = "diag"), LAMBDA e : e.diag)

\* addDiagnosticForUri: the lists of diagnosticsByUri
groupedDiagnostics(events, uri) ==
  Map(SelectSeq(events, LAMBDA e : e.k = "diag" /\ e.grouped /\ e.uri = uri),
      LAMBDA e : e.diag)

analyze(docs) ==
  LET events == analyzeEvents(docs)
      created == createdSymbols(docs)
      parsed == getParsedDocuments(docs)
      withSymbols == {doc \in Range(parsed) : Len(fileSymbols(doc)) > 0}
      withDiagnostics ==
        {e.uri : e \in {x \in Range(events) : x.k = "diag" /\ x.grouped}}
  IN [symbols |->
        [key \in {sym.key : sym \in Range(created)} |->
           finalSymbol(created, events, storedSymbol(created, key))],
      symbolsByUri |->
        [uri \in {doc.uri : doc \in withSymbols} |->
           Map(fileSymbols(getDocument(docs, uri)),
               LAMBDA sym : finalSymbol(created, events, sym))],
      diagnostics |-> diagnosticsOf(events),
      diagnosticsByUri |->
        [uri \in withDiagnostics |-> groupedDiagnostics(events, uri)]]

\* variant: a symbol that the workspace's model already holds keeps the
\* references recorded there, and the new ones are pushed after them
analyzeWorkspace_keepingReferences(docs, model) ==
  LET fresh == analyze(docs)
  IN [documents |-> docs,
      semanticModel |->
        [fresh EXCEPT !.symbols =
           [key \in DOMAIN fresh.symbols |->
              IF key \in DOMAIN model.symbols
              THEN [fresh.symbols[key] EXCEPT !.references =
                      model.symbols[key].references \o @]
              ELSE fresh.symbols[key]]]]

\* this.semanticModel = this.semanticAnalyzer.analyze(this) on a workspace
\* holding docs and model: analyze reads the documents, builds every
\* collection anew and writes nothing to the documents
analyzeWorkspace(docs, model) ==
  [documents |-> docs, semanticModel |-> analyze(docs)]

----------------------------------------------------------------------------
(* LookMLWorkspace: the mutating calls *)

\* parseAndStoreDocument: documents.set(uri, document); its closing
\* this.semanticModel = analyze(this) is the inner analyzeWorkspace of
\* updateDocumentResult
parseAndStoreDocument(docs, uri, content, lastModified) ==
  MapSet(docs, WorkspaceDocument(uri, content, lastModified))

\* variant: the document is stored and the model is left as it was
updateDocumentResult_noAnalyze(docs, model, uri, content, now) ==
  [documents |-> parseAndStoreDocument(docs, uri, content, now),
   semanticModel |-> model]

\* parseAndStoreDocument (whose last statement analyzes the workspace), then
\* this.semanticModel = analyze(this)
updateDocumentResult(docs, model, uri, content, now) ==
  LET stored == parseAndStoreDocument(docs, uri, content, now)
  IN analyzeWorkspace(stored, analyzeWorkspace(stored, model).semanticModel)

\* variant: the document is deleted and the model is left as it was
removeDocumentResult_noAnalyze(docs, model, uri) ==
  [documents |-> MapDelete(docs, uri), semanticModel |-> model]

\* documents.delete(uri), then analyze
removeDocumentResult(docs, model, uri) ==
  analyzeWorkspace(MapDelete(docs, uri), model)

\* Array.from(symbols.values()).filter((s) => s.type === type).length
countSymbolsOfType(model, type) ==
  Cardinality({key \in DOMAIN model.symbols : model.symbols[key].type = type})

\* parsedDocs.reduce((count, doc) => count + Object.keys(doc.ast.models).length, 0)
countModels(parsedDocs) ==
  Len(FlatMap(parsedDocs, LAMBDA doc : doc.ast.models))

getWorkspaceStats(docs, model) ==
  LET allDocs == getAllDocuments(docs)
      parsedDocs == getParsedDocuments(docs)
  IN [totalFiles |-> Len(allDocs),
      parsedFiles |-> Len(parsedDocs),
      errorFiles |-> Len(allDocs) - Len(parsedDocs),
      totalViews |-> countSymbolsOfType(model, "view"),
      totalExplores |-> countSymbolsOfType(model, "explore"),
      totalModels |-> countModels(parsedDocs)]

----------------------------------------------------------------------------
(* Definition and reference lookup *)

isPositionInRange(position, range) ==
  IF position.line < startLine(range) \/ position.line > endLine(range)
  THEN FALSE
  ELSE IF position.line = startLine(range)
            /\ position.character < startChar(range)
  THEN FALSE
  ELSE IF position.line = endLine(range)
            /\ position.character > endChar(range)
  THEN FALSE
  ELSE TRUE

Location(uri, position) ==
  [uri |-> uri,
   range |-> [start |-> [line |-> startLine(position),
                         character |-> startChar(position)],
              end |-> [line |-> endLine(position),
                       character |-> endChar(position)]]]

\* symbolsInFile.find(s => isPositionInRange(position, s.declaration.position)):
\* <<s>> for the first such symbol, <<>> when there is none
findSymbol(symbolsInFile, position) ==
  LET i == FindIndex(symbolsInFile,
             LAMBDA s : isPositionInRange(position, s.declaration.position))
  IN IF i = 0 THEN <<>> ELSE <<symbolsInFile[i]>>

\* the document is stored and its content is not the empty string
hasContent(docs, uri) ==
  hasDocument(docs, uri) /\ getDocument(docs, uri).content # EmptyText

symbolsInFile(model, uri) ==
  IF uri \in DOMAIN model.symbolsByUri THEN model.symbolsByUri[uri] ELSE <<>>

\* variant: every symbol whose range contains the position is answered
getDefinition_allMatches(docs, model, uri, position) ==
  IF ~hasContent(docs, uri) THEN <<>>
  ELSE Map(SelectSeq(symbolsInFile(model, uri), LAMBDA s :
             isPositionInRange(position, s.declaration.position)),
           LAMBDA s : Location(s.declaration.uri, s.declaration.position))

getDefinition(docs, model, uri, position) ==
  IF ~hasContent(docs, uri) THEN <<>>
  ELSE LET match == findSymbol(symbolsInFile(model, uri), position)
       IN IF match = <<>> THEN <<>>
          ELSE <<Location(match[1].declaration.uri,
                          match[1].declaration.position)>>

\* variant: the declaration is pushed whatever the flag says
getReferences_alwaysDeclaration(docs, model, uri, position, includeDeclaration) ==
  IF ~hasContent(docs, uri) THEN <<>>
  ELSE LET symbol == findSymbol(symbolsInFile(model, uri), position)
       IN IF symbol = <<>> THEN <<>>
          ELSE <<Location(symbol[1].declaration.uri,
                          symbol[1].declaration.position)>>
               \o Map(symbol[1].references,
                      LAMBDA ref : Location(ref.uri, ref.position))

getReferences(docs, model, uri, position, includeDeclaration) ==
  IF ~hasContent(docs, uri) THEN <<>>
  ELSE LET symbol == findSymbol(symbolsInFile(model, uri), position)
       IN IF symbol = <<>> THEN <<>>
          ELSE (IF includeDeclaration
                THEN <<Location(symbol[1].declaration.uri,
                                symbol[1].declaration.position)>>
                ELSE <<>>)
               \o Map(symbol[1].references,
                      LAMBDA ref : Location(ref.uri, ref.position))

\* LookMLDiagnosticsProvider.getDiagnostics: the list grouped under uri when
\* diagnosticsByUri has one, the whole flat list otherwise
getDiagnostics(model, uri) ==
  IF uri \in DOMAIN model.diagnosticsByUri
  THEN model.diagnosticsByUri[uri]
  ELSE model.diagnostics

----------------------------------------------------------------------------
(* LookMLCompletionProvider *)

\* A line of a document is the sequence of its columns, one lexical token
\* per column. The structured texts above do not carry their raw lines, so
\* the line under the cursor (lines[position.line] || "") is an input of
\* getCompletions.
Lines ==
  {<<>>,
   <<"type:", "number">>,
   <<"view:", "orders", "{">>,
   <<"sql:", "${", "TABLE", "}">>,
   <<"${", "orders", ".", "id">>,
   <<"${", "ghost", ".", "id">>}

\* currentLine.substring(0, character)
substring(currentLine, character) ==
  SubSeq(currentLine, 1, IF character < Len(currentLine)
                         THEN character ELSE Len(currentLine))

\* lineText.includes(token)
includes(lineText, token) == \E i \in 1..Len(lineText) : lineText[i] = token

\* the nodes of a file that own a symbol, in the order analyze pushes their
\* symbols onto fileSymbols: nodeToSymbol maps the i-th node to the i-th
\* symbol of the file
fileNodes(file) ==
  file.models
  \o FlatMap(file.views, LAMBDA view : <<view>> \o viewFields(view))
  \o FlatMap(file.explores, LAMBDA explore : <<explore>> \o explore.joins)

\* the order in which findDeepestNodeAtPosition considers the nodes, as
\* indexes of fileNodes: views with their children, explores with their
\* joins, then models
considerOrder(file) ==
  LET all == fileNodes(file)
      m == Len(file.models)
  IN [i \in 1..(Len(all) - m) |-> m + i] \o [i \in 1..m |-> i]

rangeIsInside(inner, outer) ==
  IF startLine(inner) < startLine(outer) THEN FALSE
  ELSE IF endLine(inner) > endLine(outer) THEN FALSE
  ELSE IF startLine(inner) = startLine(outer)
            /\ startChar(inner) < startChar(outer) THEN FALSE
  ELSE IF endLine(inner) = endLine(outer)
            /\ endChar(inner) > endChar(outer) THEN FALSE
  ELSE TRUE

\* consider(node) for the nodes order[k..], starting from best (0 is null)
RECURSIVE considerFrom(_, _, _, _, _)
considerFrom(nodes, order, position, k, best) ==
  IF k > Len(order) THEN best
  ELSE LET node == nodes[order[k]]
       IN IF ~isPositionInRange(position, node.position)
          THEN considerFrom(nodes, order, position, k + 1, best)
          ELSE IF best = 0 \/ rangeIsInside(node.position, nodes[best].position)
          THEN considerFrom(nodes, order, position, k + 1, order[k])
          ELSE considerFrom(nodes, order, position, k + 1, best)

\* the index in fileNodes of the node found, 0 for null
findDeepestNodeAtPosition(file, position) ==
  considerFrom(fileNodes(file), considerOrder(file), position, 1, 0)

NoFlags ==
  [inView |-> FALSE, inExplore |-> FALSE, inDimension |-> FALSE,
   inMeasure |-> FALSE, inFilter |-> FALSE, inParameter |-> FALSE,
   inJoin |-> FALSE, viewName |-> "", exploreName |-> ""]

\* the first view / explore of the file whose range holds the child's range
findContainerView(child, file) ==
  LET i == FindIndex(file.views,
             LAMBDA view : rangeIsInside(child.position, view.position))
  IN IF i = 0 THEN <<>> ELSE <<file.views[i]>>

findContainerExplore(child, file) ==
  LET i == FindIndex(file.explores,
             LAMBDA explore : rangeIsInside(child.position, explore.position))
  IN IF i = 0 THEN <<>> ELSE <<file.explores[i]>>

\* symbolForNode.parent of the i-th node of the file at uri: <<parent>> or <<>>
parentSymbol(model, uri, i) ==
  LET inFile == symbolsInFile(model, uri)
  IN IF i > Len(inFile) \/ inFile[i].parent = NoParent THEN <<>>
     ELSE LET siblings == symbolsInFile(model, inFile[i].parent.uri)
          IN SelectSeq(siblings, LAMBDA s : s.key = inFile[i].parent.key)

mapNodeToContext(i, file, uri, model) ==
  LET node == fileNodes(file)[i]
      parent == parentSymbol(model, uri, i)
      fromParent ==
        IF parent = <<>> THEN NoFlags
        ELSE IF parent[1].type = "view"
        THEN [NoFlags EXCEPT !.inView = TRUE, !.viewName = parent[1].name]
        ELSE IF parent[1].type = "explore"
        THEN [NoFlags EXCEPT !.inExplore = TRUE, !.exploreName = parent[1].name]
        ELSE NoFlags
      withView(flags) ==
        IF flags.inView \/ findContainerView(node, file) = <<>> THEN flags
        ELSE [flags EXCEPT !.inView = TRUE,
                           !.viewName = findContainerView(node, file)[1].name]
      withExplore(flags) ==
        IF flags.inExplore \/ findContainerExplore(node, file) = <<>> THEN flags
        ELSE [flags EXCEPT !.inExplore = TRUE,
                !.exploreName = findContainerExplore(node, file)[1].name]
  IN CASE node.type = "view" ->
            [fromParent EXCEPT !.inView = TRUE, !.viewName = node.name]
       [] node.type = "dimension" ->
            withView([fromParent EXCEPT !.inDimension = TRUE])
       [] node.type = "measure" ->
            withView([fromParent EXCEPT !.inMeasure = TRUE])
       [] node.type = "filter" ->
            withView([fromParent EXCEPT !.inFilter = TRUE])
       [] node.type = "parameter" ->
            withView([fromParent EXCEPT !.inParameter = TRUE])
       [] node.type = "dimension_group" -> withView(fromParent)
       [] node.type = "explore" ->
            [fromParent EXCEPT !.inExplore = TRUE, !.exploreName = node.name]
       [] node.type = "join" ->
            withExplore([fromParent EXCEPT !.inJoin = TRUE])
       [] OTHER -> fromParent

\* the flags of the context; lineText is passed beside them
analyzeContext(document, uri, position, model) ==
  IF ~document.hasAst THEN NoFlags
  ELSE LET node == findDeepestNodeAtPosition(document.ast, position)
       IN IF node = 0 THEN NoFlags
          ELSE mapNodeToContext(node, document.ast, uri, model)

\* the labels of the fixed suggestion lists, in list order
topLevelLabels == <<"view", "explore", "model", "dashboard">>

viewLabels == <<"dimension", "measure", "dimension_group", "filter",
                "parameter", "sql_table_name", "derived_table">>

exploreLabels == <<"join", "view_name", "label", "description">>

dimensionLabels == <<"type", "sql", "primary_key", "hidden", "label",
                     "description", "value_format">>

measureLabels == <<"type", "sql", "drill_fields", "value_format", "label",
                   "description", "hidden">>

filterLabels == <<"type", "default_value", "suggest_dimension">>

parameterLabels == <<"type", "default_value", "allowed_values">>

joinLabels == <<"sql_on", "relationship", "type", "view_label">>

RECURSIVE namesAsSeq(_)
namesAsSeq(names) ==
  IF names = {} THEN <<>>
  ELSE LET n == CHOOSE x \in names : TRUE
       IN <<n>> \o namesAsSeq(names \ {n})

\* the names of Array.from(symbols.values()).filter(s => s.type === type);
\* the symbols function does not keep the map's insertion order, so the
\* names come in a fixed arbitrary order
symbolNames(model, type) ==
  namesAsSeq({model.symbols[k].name :
                k \in {x \in DOMAIN model.symbols : model.symbols[x].type = type}})

getExploreCompletions(model) == exploreLabels \o symbolNames(model, "view")

getReferenceCompletions(model) ==
  symbolNames(model, "view") \o symbolNames(model, "explore")

\* the labels of the completion items, in order
getCompletionsForContext(context, lineText, model) ==
  (IF context.inView THEN viewLabels
   ELSE IF context.inExplore THEN getExploreCompletions(model)
   ELSE IF context.inDimension THEN dimensionLabels
   ELSE IF context.inMeasure THEN measureLabels
   ELSE IF context.inFilter THEN filterLabels
   ELSE IF context.inParameter THEN parameterLabels
   ELSE IF context.inJoin THEN joinLabels
   ELSE topLevelLabels)
  \o (IF includes(lineText, "${") \/ includes(lineText, "view:")
      THEN getReferenceCompletions(model)
      ELSE <<>>)

getCompletions(docs, model, uri, position, currentLine) ==
  IF ~hasContent(docs, uri) THEN <<>>
  ELSE getCompletionsForContext(
         analyzeContext(getDocument(docs, uri), uri, position, model),
         substring(currentLine, position.character),
         model)

----------------------------------------------------------------------------
(* The state machine *)

NoContent == Malformed("")

\* initialize(): pc is "new" (not called), "glob" (awaiting glob), "loop"
\* (between two loadDocument calls), "read" (between readFile and
\* parseAndStoreDocument of the first of files) or "done" (returned)
NotStarted == [pc |-> "new", files |-> <<>>, content |-> NoContent]

\* the .lkml files glob finds under the workspace path, and what they hold
DiskFiles == <<"file:///a.lkml", "file:///b.lkml">>

DiskContent(uri) == IF uri = "file:///a.lkml" THEN OrdersText ELSE ExploreText

\* the texts the editor holds for an open document
EditorTexts == {OrdersText, CustomersText, ExploreText}

Closed == [open |-> FALSE, text |-> NoContent]

Open(text) == [open |-> TRUE, text |-> text]

NothingSent == [sent |-> FALSE, diagnostics |-> <<>>]

Init ==
  /\ documents = <<>>
  /\ semanticModel = analyze(<<>>)
  /\ lastCall = [op |-> "new", uri |-> ""]
  /\ scan = NotStarted
  /\ editor = [uri \in Uris |-> Closed]
  /\ published = [uri \in Uris |-> NothingSent]

updateDocument(uri, content, now) ==
  LET r == updateDocumentResult(documents, semanticModel, uri, content, now)
  IN /\ documents' = r.documents
     /\ semanticModel' = r.semanticModel
     /\ lastCall' = [op |-> "updateDocument", uri |-> uri]
     /\ UNCHANGED <<scan, editor, published>>

removeDocument(uri) ==
  LET r == removeDocumentResult(documents, semanticModel, uri)
  IN /\ documents' = r.documents
     /\ semanticModel' = r.semanticModel
     /\ lastCall' = [op |-> "removeDocument", uri |-> uri]
     /\ UNCHANGED <<scan, editor, published>>

\* a workspace driven through its public calls, as the unit tests drive it
Next ==
  \/ \E uri \in Uris, content \in Texts, now \in Times :
       updateDocument(uri, content, now)
  \/ \E uri \in Uris : removeDocument(uri)

Spec == Init /\ [][Next]_vars

----------------------------------------------------------------------------
(* The language server: workspace.initialize() and the document events *)

\* connection.onInitialized calls workspace.initialize() and does not await
\* it: the scan runs between the document events.  initializeGlob is the
\* continuation of `await glob(...)`.
initializeGlob ==
  /\ scan.pc = "glob"
  /\ scan' = [scan EXCEPT !.pc = "loop", !.files = DiskFiles]
  /\ UNCHANGED <<documents, semanticModel, lastCall, editor, published>>

\* loadDocument up to `await fs.promises.readFile(filePath)`
loadDocumentRead ==
  /\ scan.pc = "loop"
  /\ scan.files # <<>>
  /\ scan' = [scan EXCEPT !.pc = "read", !.content = DiskContent(Head(scan.files))]
  /\ UNCHANGED <<documents, semanticModel, lastCall, editor, published>>

\* loadDocument from the continuation of `await fs.promises.stat(filePath)`:
\* parseAndStoreDocument(uri, fileName, content, mtime), whose last
\* statement analyzes the workspace
loadDocumentStore(mtime) ==
  /\ scan.pc = "read"
  /\ LET uri == Head(scan.files)
         stored == parseAndStoreDocument(documents, uri, scan.content, mtime)
         r == analyzeWorkspace(stored, semanticModel)
     IN /\ documents' = r.documents
        /\ semanticModel' = r.semanticModel
        /\ lastCall' = [op |-> "loadDocument", uri |-> uri]
  /\ scan' = [scan EXCEPT !.pc = "loop", !.files = Tail(scan.files),
                          !.content = NoContent]
  /\ UNCHANGED <<editor, published>>

\* the end of the loop: this.semanticModel = analyze(this)
initializeFinish ==
  /\ scan.pc = "loop"
  /\ scan.files = <<>>
  /\ semanticModel' = analyzeWorkspace(documents, semanticModel).semanticModel
  /\ scan' = [scan EXCEPT !.pc = "done"]
  /\ lastCall' = [op |-> "initialize", uri |-> ""]
  /\ UNCHANGED <<documents, editor, published>>

\* validateTextDocument(textDocument), after its updateDocument call has
\* left the workspace as updated: getDiagnostics and sendDiagnostics.
\* getDiagnostics has no await inside, so the list sent is the one of the
\* model as updateDocument left it.
validateTextDocument(updated, uri) ==
  [sent |-> TRUE, diagnostics |-> getDiagnostics(updated.semanticModel, uri)]

\* documents.onDidChangeContent: validateTextDocument(change.document)
onDidChangeContent(uri, text, now) ==
  /\ editor[uri].open
  /\ \E updated \in {updateDocumentResult(documents, semanticModel, uri, text, now)} :
       /\ documents' = updated.documents
       /\ semanticModel' = updated.semanticModel
       /\ published' = [published EXCEPT ![uri] = validateTextDocument(updated, uri)]
  /\ editor' = [editor EXCEPT ![uri] = Open(text)]
  /\ lastCall' = [op |-> "updateDocument", uri |-> uri]
  /\ UNCHANGED scan

\* documents.onDidOpen: updateDocument, then validateTextDocument
onDidOpen(uri, text, now) ==
  /\ ~editor[uri].open
  /\ \E first \in {updateDocumentResult(documents, semanticModel, uri, text, now)} :
       \E updated \in {updateDocumentResult(first.documents, first.semanticModel,
                                            uri, text, now)} :
         /\ documents' = updated.documents
         /\ semanticModel' = updated.semanticModel
         /\ published' = [published EXCEPT ![uri] = validateTextDocument(updated, uri)]
  /\ editor' = [editor EXCEPT ![uri] = Open(text)]
  /\ lastCall' = [op |-> "updateDocument", uri |-> uri]
  /\ UNCHANGED scan

\* documents.onDidSave: updateDocument, then validateTextDocument
onDidSave(uri, now) ==
  /\ editor[uri].open
  /\ \E first \in {updateDocumentResult(documents, semanticModel, uri,
                                        editor[uri].text, now)} :
       \E updated \in {updateDocumentResult(first.documents, first.semanticModel,
                                            uri, editor[uri].text, now)} :
         /\ documents' = updated.documents
         /\ semanticModel' = updated.semanticModel
         /\ published' = [published EXCEPT ![uri] = validateTextDocument(updated, uri)]
  /\ lastCall' = [op |-> "updateDocument", uri |-> uri]
  /\ UNCHANGED <<scan, editor>>

\* documents.onDidClose: removeDocument, and nothing is sent
onDidClose(uri) ==
  /\ editor[uri].open
  /\ LET r == removeDocumentResult(documents, semanticModel, uri)
     IN /\ documents' = r.documents
        /\ semanticModel' = r.semanticModel
  /\ editor' = [editor EXCEPT ![uri] = Closed]
  /\ lastCall' = [op |-> "removeDocument", uri |-> uri]
  /\ UNCHANGED <<scan, published>>

DocumentEvent ==
  \/ \E uri \in Uris, text \in EditorTexts, now \in Times :
       onDidChangeContent(uri, text, now)
  \/ \E uri \in Uris, text \in EditorTexts, now \in Times :
       onDidOpen(uri, text, now)
  \/ \E uri \in Uris, now \in Times : onDidSave(uri, now)
  \/ \E uri \in Uris : onDidClose(uri)

\* the server after connection.onInitialized has called initialize()
ServerInit ==
  /\ documents = <<>>
  /\ semanticModel = analyze(<<>>)
  /\ lastCall = [op |-> "new", uri |-> ""]
  /\ scan = [NotStarted EXCEPT !.pc = "glob"]
  /\ editor = [uri \in Uris |-> Closed]
  /\ published = [uri \in Uris |-> NothingSent]

ServerNext ==
  \/ initializeGlob
  \/ loadDocumentRead
  \/ \E mtime \in Times : loadDocumentStore(mtime)
  \/ initializeFinish
  \/ DocumentEvent

ServerSpec == ServerInit /\ [][ServerNext]_vars

----------------------------------------------------------------------------
(* Properties *)

StoredUris == {documents[i].uri : i \in 1..Len(documents)}

\* the symbol objects reachable from a model: those of symbols and those of
\* symbolsByUri
modelSymbols(model) ==
  {model.symbols[k] : k \in DOMAIN model.symbols}
    \cup UNION {Range(model.symbolsByUri[u]) : u \in DOMAIN model.symbolsByUri}

diagnosticsByUriOf(model, uri) ==
  IF uri \in DOMAIN model.diagnosticsByUri
  THEN model.diagnosticsByUri[uri] ELSE <<>>

\* C1: whenever updateDocument or removeDocument has returned, the workspace's
\* semantic model has the symbol keys, the references of every symbol and
\* the diagnostics (flat and per URI) of a fresh analyze of the documents
\* stored at that moment.
C1_ModelFollowsDocuments ==
  LET fresh == analyze(documents)
  IN /\ DOMAIN semanticModel.symbols = DOMAIN fresh.symbols
     /\ \A k \in DOMAIN fresh.symbols :
          semanticModel.symbols[k].references = fresh.symbols[k].references
     /\ semanticModel.symbolsByUri = fresh.symbolsByUri
     /\ semanticModel.diagnostics = fresh.diagnostics
     /\ semanticModel.diagnosticsByUri = fresh.diagnosticsByUri

\* a removal has returned and the model of the remaining document carries
\* symbols, references and diagnostics
C1_Witness ==
  /\ lastCall.op = "removeDocument"
  /\ Len(documents) = 1
  /\ lastCall.uri \notin StoredUris
  /\ \E k \in DOMAIN semanticModel.symbols :
       semanticModel.symbols[k].references # <<>>
  /\ semanticModel.diagnostics # <<>>

\* C2: after updateDocument(uri, content) with content the parser rejects,
\* the document is stored with success = false, the error retained and no
\* ast; the model holds no symbol declared in uri, and uri's diagnostics are
\* exactly one Error at (0,0)-(0,0) whose message starts with "Parse error".
RejectedJustStored ==
  /\ lastCall.op = "updateDocument"
  /\ hasDocument(documents, lastCall.uri)
  /\ ~getDocument(documents, lastCall.uri).content.ok

C2_ParseFailureStored ==
  RejectedJustStored =>
    LET uri == lastCall.uri
        doc == getDocument(documents, uri)
        own == SelectSeq(semanticModel.diagnostics, LAMBDA d : d.owner = uri)
    IN /\ doc.parseResult.success = FALSE
       /\ doc.parseResult.hasError
       /\ doc.parseResult.error = doc.content.error
       /\ ~doc.hasAst
       /\ uri \notin DOMAIN semanticModel.symbolsByUri
       /\ \A sym \in modelSymbols(semanticModel) : sym.declaration.uri # uri
       /\ diagnosticsByUriOf(semanticModel, uri) =
            <<[owner |-> uri, severity |-> "Error", range |-> ZeroPosition,
               message |-> "Parse error: " \o doc.content.error,
               code |-> "", source |-> "lookml"]>>
       /\ own = diagnosticsByUriOf(semanticModel, uri)

\* a rejected text has replaced the document while another document
\* declares symbols
C2_Witness ==
  /\ RejectedJustStored
  /\ Len(documents) = 2
  /\ DOMAIN semanticModel.symbols # {}

\* C3: after removeDocument(uri) the document is absent and the model holds
\* no symbol declared in uri, no reference located in uri and no
\* diagnosticsByUri entry for uri.
C3_RemovedLeavesNoTrace ==
  lastCall.op = "removeDocument" =>
    LET uri == lastCall.uri
    IN /\ ~hasDocument(documents, uri)
       /\ uri \notin DOMAIN semanticModel.symbolsByUri
       /\ \A sym \in modelSymbols(semanticModel) :
            /\ sym.declaration.uri # uri
            /\ \A i \in 1..Len(sym.references) : sym.references[i].uri # uri
       /\ uri \notin DOMAIN semanticModel.diagnosticsByUri

\* a document was removed while the other one, which names views, stays
C3_Witness ==
  /\ lastCall.op = "removeDocument"
  /\ Len(documents) = 1
  /\ documents[1].content = ExploreText
  /\ \E i \in 1..Len(semanticModel.diagnostics) :
       semanticModel.diagnostics[i].code = "undefined-view"

\* C4: the flat diagnostics list and diagnosticsByUri hold the same
\* diagnostics: for every document, the diagnostics of the flat list that
\* belong to it are exactly the entries of its diagnosticsByUri list, once
\* each, and diagnosticsByUri has no entry for anything else.
C4_FlatAndGroupedAgree ==
  /\ \A uri \in Uris :
       SelectSeq(semanticModel.diagnostics, LAMBDA d : d.owner = uri)
         = diagnosticsByUriOf(semanticModel, uri)
  /\ DOMAIN semanticModel.diagnosticsByUri \subseteq Uris

\* C5: the symbol that definition and reference lookup select for a cursor
\* is one with the smallest declaration range containing the cursor: no
\* other symbol of the file contains the cursor with a range nested strictly
\* inside the selected symbol's range.
contains(outer, inner) ==
  /\ isPositionInRange([line |-> startLine(inner), character |-> startChar(inner)],
                       outer)
  /\ isPositionInRange([line |-> endLine(inner), character |-> endChar(inner)],
                       outer)

C5_InnermostSymbolSelected ==
  \A uri \in StoredUris, position \in Cursors :
    LET inFile == symbolsInFile(semanticModel, uri)
        found == findSymbol(inFile, position)
    IN found # <<>> =>
         \A i \in 1..Len(inFile) :
           ~ /\ isPositionInRange(position, inFile[i].declaration.position)
             /\ inFile[i].declaration.position # found[1].declaration.position
             /\ contains(found[1].declaration.position,
                         inFile[i].declaration.position)

\* C6: definition lookup and reference lookup never return a symbol whose
\* declaration position is all-zero, at any cursor.
C6_UnknownPositionNeverReturned ==
  \A uri \in StoredUris, position \in Cursors :
    /\ \A i \in 1..Len(getDefinition(documents, semanticModel, uri, position)) :
         getDefinition(documents, semanticModel, uri, position)[i]
           # Location(uri, ZeroPosition)
    /\ LET symbol == findSymbol(symbolsInFile(semanticModel, uri), position)
       IN hasContent(documents, uri) /\ symbol # <<>> =>
            symbol[1].declaration.position # ZeroPosition

\* C7: every view that a parsed document declares and that some join's view
\* or some explore's baseView names has a non-empty reference list on its
\* symbol.
namedViews ==
  UNION {({e.baseView} \cup {j.view : j \in Range(e.joins)}) \ {""} :
           e \in Range(FlatMap(getParsedDocuments(documents),
                               LAMBDA doc : doc.ast.explores))}

declaredViews ==
  {v.name : v \in Range(FlatMap(getParsedDocuments(documents),
                                LAMBDA doc : doc.ast.views))}

duplicateFieldDiagnostics(uri, viewName, n) ==
  SelectSeq(semanticModel.diagnostics, LAMBDA d :
    /\ d.owner = uri
    /\ d.code = "duplicate-field"
    /\ d.message = "Duplicate field name '" \o n \o "' in view '"
                     \o viewName \o "'")

\* C8: for every view and every field name n carried by k of the view's
\* field nodes (all kinds together), analysis yields exactly k-1
\* duplicate-field Errors for n, at the positions of the occurrences after
\* the first in the order dimensions, measures, filters, parameters,
\* dimension groups; so a name carried by one field yields none.
C8_DuplicateFieldCount ==
  \A d \in 1..Len(documents) :
    documents[d].hasAst =>
      \A v \in 1..Len(documents[d].ast.views) :
        LET view == documents[d].ast.views[v]
            fields == viewFields(view)
        IN \A n \in {fields[i].name : i \in 1..Len(fields)} :
             LET occurrences == SelectSeq(fields, LAMBDA f : f.name = n)
                 diags == duplicateFieldDiagnostics(documents[d].uri, view.name, n)
             IN /\ Len(diags) = Len(occurrences) - 1
                /\ \A i \in 1..Len(diags) :
                     /\ diags[i].severity = "Error"
                     /\ diags[i].range = occurrences[i + 1].position
                /\ diags = SelectSeq(
                             diagnosticsByUriOf(semanticModel, documents[d].uri),
                             LAMBDA x : x \in Range(diags))

\* a view holds a name carried by three field nodes of different kinds, a
\* name carried by two and, in another view, a name carried by one
C8_Witness ==
  \E d \in 1..Len(documents) :
    /\ documents[d].content = DuplicatesText
    /\ Len(duplicateFieldDiagnostics(documents[d].uri, "customers", "id")) = 2
    /\ Len(duplicateFieldDiagnostics(documents[d].uri, "customers", "total")) = 1
    /\ Len(duplicateFieldDiagnostics(documents[d].uri, "orders", "id")) = 0

\* C9: a view whose source declares two dimensions both named id yields
\* exactly one duplicate-field Error, at the position of the second
\* declaration.
C9_TwoDimensionsNamedId ==
  \A d \in 1..Len(documents) :
    documents[d].content.ok =>
      \A v \in 1..Len(documents[d].content.views) :
        LET viewData == documents[d].content.views[v]
            named == SelectSeq(viewData.fields, LAMBDA f : f.name = "id")
        IN (Len(named) = 2 /\ \A i \in 1..2 : named[i].kind = "dimension") =>
             LET diags == duplicateFieldDiagnostics(documents[d].uri,
                                                    viewData.name, "id")
             IN /\ Len(diags) = 1
                /\ diags[1].severity = "Error"
                /\ diags[1].range = extractPosition(named[2].p)

\* C10: for every explore with a base view, analysis emits a cyclic-join
\* Warning at the explore's position if and only if the explore's joins lead
\* back to its base view; an explore whose joins name only other views gets
\* none.
leadsBackToBase(explore) ==
  \E i \in 1..Len(explore.joins) : explore.joins[i].view = explore.baseView

cyclicJoinDiagnostics(uri, explore) ==
  SelectSeq(semanticModel.diagnostics, LAMBDA d :
    /\ d.owner = uri
    /\ d.code = "cyclic-join"
    /\ d.severity = "Warning"
    /\ d.range = explore.position
    /\ d.message = "Cyclic dependency detected in explore '" \o explore.name \o "'")

C10_CyclicJoinIffCycle ==
  \A d \in 1..Len(documents) :
    documents[d].hasAst =>
      \A e \in 1..Len(documents[d].ast.explores) :
        LET explore == documents[d].ast.explores[e]
        IN explore.baseView # "" =>
             (cyclicJoinDiagnostics(documents[d].uri, explore) # <<>>
                <=> leadsBackToBase(explore))

\* the undefined-view Errors of the model located at position in document uri
undefinedViewDiagnostics(uri, position) ==
  SelectSeq(semanticModel.diagnostics, LAMBDA d :
    /\ d.owner = uri
    /\ d.code = "undefined-view"
    /\ d.severity = "Error"
    /\ d.range = position)

\* C11: a join named customers with sql_on and a valid relationship but no
\* view parameter, while no stored document declares a view customers, has
\* exactly one undefined-view Error at the join's position.
C11_JoinWithoutViewIsUndefined ==
  \A d \in 1..Len(documents) :
    documents[d].hasAst =>
      \A e \in 1..Len(documents[d].ast.explores) :
        \A j \in 1..Len(documents[d].ast.explores[e].joins) :
          LET join == documents[d].ast.explores[e].joins[j]
          IN ( /\ join.name = "customers"
               /\ join.view = ""
               /\ join.sqlOn.present
               /\ join.relationship \in validRelationships
               /\ "customers" \notin declaredViews )
             => Len(undefinedViewDiagnostics(documents[d].uri, join.position)) = 1

\* the positions of the explores (by baseView) and joins (by view) of ast that
\* name view V, in the order the cross-reference pass visits them
namingSites(ast, V) ==
  FlatMap(ast.explores, LAMBDA explore :
    (IF explore.baseView = V THEN <<explore.position>> ELSE <<>>)
    \o Map(SelectSeq(explore.joins, LAMBDA join : join.view = V),
           LAMBDA join : join.position))

viewsNamedIn(ast) ==
  UNION {({e.baseView} \cup {j.view : j \in Range(e.joins)}) \ {""} :
           e \in Range(ast.explores)}

\* the undefined-view diagnostics of list that name view V
undefinedViewFor(list, V) ==
  SelectSeq(list, LAMBDA d :
    d.code = "undefined-view" /\ d.message = "View '" \o V \o "' not found")

C13_OrdersViewAloneIsClean ==
  (Len(documents) = 1 /\ documents[1].content = OrdersText) =>
    /\ DOMAIN semanticModel.symbols =
         {"view:orders", "dimension:orders.id", "measure:orders.count"}
    /\ semanticModel.diagnostics = <<>>
    /\ diagnosticsByUriOf(semanticModel, documents[1].uri) = <<>>

C16_InnermostContextDecides ==
  \A uri \in StoredUris, position \in Cursors :
    LET doc == getDocument(documents, uri)
        labels == getCompletions(documents, semanticModel, uri, position, <<>>)
    IN doc.hasAst =>
         /\ \A view \in Range(doc.ast.views) :
              \A dimension \in Range(view.dimensions) :
                ( /\ dimension.position # ZeroPosition
                  /\ isPositionInRange(position, dimension.position)
                  /\ contains(view.position, dimension.position) )
                => labels = dimensionLabels
         /\ \A explore \in Range(doc.ast.explores) :
              \A join \in Range(explore.joins) :
                ( /\ join.position # ZeroPosition
                  /\ isPositionInRange(position, join.position)
                  /\ contains(explore.position, join.position) )
                => labels = joinLabels

\* the names of the fields of the declared views named V
fieldNamesOf(V) ==
  UNION {{f.name : f \in Range(viewFields(view))} :
           view \in {v \in Range(allViews(documents)) : v.name = V}}

\* C17: when the line text before the cursor contains "${", the completions
\* include the name of every view of the workspace; when it ends with "${",
\* the name of a known view and ".", they include the names of that view's
\* fields.
C17_ReferenceCompletions ==
  \A uri \in StoredUris, position \in Cursors, currentLine \in Lines :
    LET lineText == substring(currentLine, position.character)
        labels == Range(getCompletions(documents, semanticModel, uri,
                                       position, currentLine))
    IN hasContent(documents, uri) =>
         /\ includes(lineText, "${") => declaredViews \subseteq labels
         /\ \A V \in declaredViews :
              ( /\ Len(lineText) >= 3
                /\ SubSeq(lineText, Len(lineText) - 2, Len(lineText))
                     = <<"${", V, ".">> )
              => fieldNamesOf(V) \subseteq labels

\* C18: getDefinition is total and silent on a miss: for every URI and
\* position it returns the empty list when the URI is unknown, the document
\* failed to parse or has no symbols, or the position lies inside no
\* declaration of the document, and exactly one location, that of a
\* declaration containing the position, otherwise.
C18_DefinitionTotalAndSilent ==
  \A uri \in Uris, position \in Cursors :
    LET result == getDefinition(documents, semanticModel, uri, position)
        hit == /\ hasDocument(documents, uri)
               /\ getDocument(documents, uri).hasAst
               /\ \E node \in Range(fileNodes(getDocument(documents, uri).ast)) :
                    isPositionInRange(position, node.position)
    IN /\ ~hit => result = <<>>
       /\ hit =>
            /\ Len(result) = 1
            /\ result[1].uri = uri
            /\ \E node \in Range(fileNodes(getDocument(documents, uri).ast)) :
                 /\ isPositionInRange(position, node.position)
                 /\ result[1] = Location(uri, node.position)

\* one document with declarations is stored and the other URI is unknown; a
\* cursor inside the view and its dimension gets one location, a cursor
\* outside every declaration gets none
C18_Witness ==
  /\ Len(documents) = 1
  /\ documents[1].content = OrdersText
  /\ Len(getDefinition(documents, semanticModel, documents[1].uri,
                       [line |-> 3, character |-> 2])) = 1
  /\ getDefinition(documents, semanticModel, documents[1].uri,
                   [line |-> 0, character |-> 0]) = <<>>
  /\ \E uri \in Uris : ~hasDocument(documents, uri)

\* C19: for a position that resolves to symbol s, getReferences returns s's
\* declaration location first if and only if includeDeclaration is true,
\* followed by one location per entry of s.references in recorded order; when
\* no symbol is at the position it returns the empty list.
C19_ReferencesListing ==
  \A uri \in Uris, position \in Cursors :
    LET s == IF hasContent(documents, uri)
             THEN findSymbol(symbolsInFile(semanticModel, uri), position)
             ELSE <<>>
        with == getReferences(documents, semanticModel, uri, position, TRUE)
        without == getReferences(documents, semanticModel, uri, position, FALSE)
    IN /\ s = <<>> => with = <<>> /\ without = <<>>
       /\ s # <<>> =>
            /\ Len(without) = Len(s[1].references)
            /\ \A i \in 1..Len(without) :
                 without[i] = Location(s[1].references[i].uri,
                                       s[1].references[i].position)
            /\ Len(with) = Len(s[1].references) + 1
            /\ with = <<Location(s[1].declaration.uri,
                                 s[1].declaration.position)>> \o without

\* a cursor resolves to a symbol that carries references from both documents
C19_Witness ==
  \E uri \in StoredUris, position \in Cursors :
    LET s == findSymbol(symbolsInFile(semanticModel, uri), position)
    IN /\ hasContent(documents, uri)
       /\ s # <<>>
       /\ Len(s[1].references) >= 2
       /\ \E i, j \in 1..Len(s[1].references) :
            s[1].references[i].uri # s[1].references[j].uri

\* C20: parseContent returns, for every text, either success with an ast and
\* no error or failure with an error and no ast; every stored document has an
\* ast exactly when its parseResult.success is true, and getParsedDocuments
\* returns exactly the documents with success true.
C20_ParseResultShape ==
  /\ \A content \in Texts :
       LET r == parseContent(content)
       IN \/ r.success /\ r.hasAst /\ ~r.hasError
          \/ ~r.success /\ ~r.hasAst /\ r.hasError
  /\ \A i \in 1..Len(documents) :
       /\ documents[i].parseResult = parseContent(documents[i].content)
       /\ documents[i].hasAst <=> documents[i].parseResult.success
  /\ getParsedDocuments(documents)
       = SelectSeq(documents, LAMBDA doc : doc.parseResult.success)

\* a document that failed to parse is stored beside one that parsed
C20_Witness ==
  /\ Len(documents) = 2
  /\ ~documents[1].parseResult.success
  /\ documents[2].parseResult.success
  /\ Len(getParsedDocuments(documents)) = 1

\* the views that the sql_on of some join of ast mentions as ${V.field}
viewsMentionedInSqlOn(ast) ==
  UNION {UNION {{r.view : r \in {x \in Range(j.sqlOn.refs) : x.field # ""}} :
                  j \in Range(e.joins)} :
           e \in Range(ast.explores)}

\* C21: for every view V declared in one document and mentioned as
\* ${V.field} in the sql_on of a join of another document, the references
\* recorded for view V are non-empty.
C21_ViewMentionedInSqlOnIsReferenced ==
  \A a, b \in 1..Len(documents) :
    (a # b /\ documents[a].hasAst /\ documents[b].hasAst) =>
      \A view \in Range(documents[b].ast.views) :
        view.name \in viewsMentionedInSqlOn(documents[a].ast) =>
          /\ createSymbolKey("view", view.name) \in DOMAIN semanticModel.symbols
          /\ semanticModel.symbols[createSymbolKey("view", view.name)].references
               # <<>>

\* the declarations of one kind across the successfully parsed documents
declaredAcrossParsed(kind) ==
  FlatMap(getParsedDocuments(documents),
          LAMBDA doc : IF kind = "view" THEN doc.ast.views ELSE doc.ast.explores)

\* C22: getWorkspaceStats counts the stored documents as totalFiles =
\* parsedFiles + errorFiles, and totalViews and totalExplores are the numbers
\* of views and of explores declared across the successfully parsed documents
C22_StatsCountDeclarations ==
  LET stats == getWorkspaceStats(documents, semanticModel)
  IN /\ stats.totalFiles = Len(documents)
     /\ stats.totalFiles = stats.parsedFiles + stats.errorFiles
     /\ stats.totalViews = Len(declaredAcrossParsed("view"))
     /\ stats.totalExplores = Len(declaredAcrossParsed("explore"))

\* the symbol object a parent link points to
parentOf(model, sym) ==
  LET inFile == model.symbolsByUri[sym.parent.uri]
  IN inFile[CHOOSE i \in 1..Len(inFile) : inFile[i].key = sym.parent.key]

hasParent(model, sym) ==
  /\ sym.parent # NoParent
  /\ sym.parent.uri \in DOMAIN model.symbolsByUri
  /\ \E other \in Range(model.symbolsByUri[sym.parent.uri]) :
       other.key = sym.parent.key

\* the names of the fields and of the joins declared in the stored documents
declaredChildNames ==
  LET allExplores == FlatMap(getParsedDocuments(documents),
                             LAMBDA doc : doc.ast.explores)
  IN UNION {{field.name : field \in Range(viewFields(view))} :
              view \in Range(allViews(documents))}
       \cup UNION {{join.name : join \in Range(explore.joins)} :
                     explore \in Range(allExplores)}

fieldTypes == {"dimension", "measure", "filter", "parameter", "dimension_group"}

\* C23: every entry of symbols is stored under type:name; a field symbol is
\* named viewName.fieldName and its parent is a view symbol named viewName,
\* a join symbol is named exploreName.joinName and its parent is an explore
\* symbol named exploreName; view, explore and model symbols have no parent;
\* a dimension and a measure of one view sharing a name are two symbols
C23_SymbolKeysNamesAndParents ==
  /\ \A key \in DOMAIN semanticModel.symbols :
       LET sym == semanticModel.symbols[key]
           childOf(parentType) ==
             /\ hasParent(semanticModel, sym)
             /\ parentOf(semanticModel, sym).type = parentType
             /\ \E childName \in declaredChildNames :
                  sym.name = parentOf(semanticModel, sym).name \o "." \o childName
       IN /\ key = sym.type \o ":" \o sym.name
          /\ sym.type \in fieldTypes \cup {"join", "view", "explore", "model"}
          /\ sym.type \in fieldTypes => childOf("view")
          /\ sym.type = "join" => childOf("explore")
          /\ sym.type \in {"view", "explore", "model"} => sym.parent = NoParent
  /\ \A view \in Range(allViews(documents)) :
       \A dimension \in Range(view.dimensions), measure \in Range(view.measures) :
         dimension.name = measure.name =>
           LET d == "dimension:" \o view.name \o "." \o dimension.name
               m == "measure:" \o view.name \o "." \o measure.name
           IN /\ {d, m} \subseteq DOMAIN semanticModel.symbols
              /\ semanticModel.symbols[d] # semanticModel.symbols[m]
              /\ semanticModel.symbols[d].type = "dimension"
              /\ semanticModel.symbols[m].type = "measure"

\* a view with a dimension and a measure of one name, and an explore with a
\* join, are in the model
C23_Witness ==
  /\ {"dimension:customers.id", "measure:customers.id", "filter:customers.id",
      "join:sales.customers"} \subseteq DOMAIN semanticModel.symbols
  /\ semanticModel.symbols["measure:customers.id"].parent.key = "view:customers"
  /\ semanticModel.symbols["join:sales.customers"].parent.key = "explore:sales"

\* the embedded references of the sql of the dimensions and measures that the
\* parsed document uri declares at position
fieldSqlReferences(uri, position) ==
  LET fieldsOf(doc) ==
        FlatMap(doc.ast.views, LAMBDA view : view.dimensions \o view.measures)
      fields == FlatMap(SelectSeq(getParsedDocuments(documents),
                                  LAMBDA doc : doc.uri = uri), fieldsOf)
  IN FlatMap(SelectSeq(fields, LAMBDA field : field.position = position),
             LAMBDA field : field.sql.refs)

\* ${v.f} names the symbols dimension:v.f and measure:v.f, ${v} names view:v
mentions(sym, r) ==
  \/ sym.type \in {"dimension", "measure"} /\ r.field # ""
       /\ sym.name = r.view \o "." \o r.field
  \/ sym.type = "view" /\ r.field = "" /\ sym.name = r.view

exploreOrJoinAt(uri, position) ==
  \E doc \in Range(getParsedDocuments(documents)) :
    /\ doc.uri = uri
    /\ \E explore \in Range(doc.ast.explores) :
         \/ explore.position = position
         \/ \E join \in Range(explore.joins) : join.position = position

fieldPositions ==
  UNION {{field.position : field \in Range(viewFields(view))} :
           view \in Range(allViews(documents))}

\* C24: every ${v.f} in the sql of a dimension or measure is one reference,
\* at the field's position in the field's document, on each of the symbols
\* dimension:v.f and measure:v.f that exists, and every ${v} is one reference
\* on view:v; a reference that names no symbol is recorded nowhere and
\* raises no diagnostic
C24_SqlReferencesRecorded ==
  /\ \A key \in DOMAIN semanticModel.symbols, uri \in Uris,
        position \in fieldPositions :
       LET sym == semanticModel.symbols[key]
           recorded == Len(SelectSeq(sym.references, LAMBDA ref :
                             ref.uri = uri /\ ref.position = position))
           expected == Len(SelectSeq(fieldSqlReferences(uri, position),
                             LAMBDA r : mentions(sym, r)))
       IN /\ recorded >= expected
          /\ ~exploreOrJoinAt(uri, position) => recorded = expected
  /\ \A uri \in Uris, position \in fieldPositions :
       \A r \in Range(fieldSqlReferences(uri, position)) :
         (\A i \in 1..Len(documents) : r.view \notin viewsNamedIn(documents[i].ast))
           => \A diag \in Range(semanticModel.diagnostics) :
                diag.message # "View '" \o r.view \o "' not found"

\* the measure of CustomersText mentions ${orders.id}, ${orders.count} and
\* ${customers}, its dimension ${TABLE}, and the referenced symbols exist
C24_Witness ==
  /\ \E i, j \in 1..Len(documents) :
       documents[i].content = CustomersText /\ documents[j].content = OrdersText
  /\ semanticModel.symbols["dimension:orders.id"].references # <<>>
  /\ semanticModel.symbols["measure:orders.count"].references # <<>>
  /\ semanticModel.symbols["view:customers"].references # <<>>

\* C25: getDiagnostics(uri) returns exactly the diagnostics grouped under
\* uri: for a stored document without diagnostics and for a uri that is not
\* stored it returns the empty list, never a diagnostic of another document
C25_DiagnosticsOfUriOnly ==
  \A uri \in Uris :
    /\ getDiagnostics(semanticModel, uri) = diagnosticsByUriOf(semanticModel, uri)
    /\ \A diag \in Range(getDiagnostics(semanticModel, uri)) : diag.owner = uri

\* sym is the object that symbols holds under sym's key
isStored(model, sym) ==
  /\ sym.key \in DOMAIN model.symbols
  /\ model.symbols[sym.key] = sym

\* C26: every symbol of symbolsByUri, and every parent a symbol links to, is
\* the symbol stored in symbols under its key, also when two documents
\* declare a view or an explore of one name
C26_EverySymbolIsStored ==
  \A sym \in modelSymbols(semanticModel) :
    /\ isStored(semanticModel, sym)
    /\ sym.parent # NoParent => isStored(semanticModel, parentOf(semanticModel, sym))

\* the same stored documents, inserted in the opposite order
reversed(docs) == [i \in 1..Len(docs) |-> docs[Len(docs) + 1 - i]]

\* what of a model the editor can observe per key and per uri
observable(model) ==
  [declarations |-> [key \in DOMAIN model.symbols |->
                       model.symbols[key].declaration.uri],
   references |-> [key \in DOMAIN model.symbols |->
                     Range(model.symbols[key].references)],
   diagnostics |-> [uri \in Uris |-> Range(diagnosticsByUriOf(model, uri))]]

\* C27: the model depends on the set of stored (uri, content) pairs only: the
\* workspace that stored the same documents in the other order has the same
\* symbol keys, the same declaration uri per key, the same references and the
\* same diagnostics per uri
C27_ModelIndependentOfCallOrder ==
  observable(analyze(reversed(documents))) = observable(semanticModel)

\* C28: an editor update is not lost to the initial scan. When initialize()
\* has returned, a scanned file that is open in the editor is stored with the
\* text the editor last sent for it, and the model is the analysis of the
\* stored documents
C28_EditorUpdateSurvivesScan ==
  scan.pc = "done" =>
    /\ \A uri \in Range(DiskFiles) :
         editor[uri].open =>
           /\ hasDocument(documents, uri)
           /\ getDocument(documents, uri).content = editor[uri].text
    /\ semanticModel = analyze(documents)

\* C29: after every open, change, save or close event the diagnostics last
\* sent for each open document are the ones the model now has for it, also
\* for a document whose diagnostics changed because another one was edited
\* or closed
C29_PublishedDiagnosticsAreCurrent ==
  [][DocumentEvent =>
       \A uri \in Uris :
         editor'[uri].open =>
           /\ published'[uri].sent
           /\ published'[uri].diagnostics = getDiagnostics(semanticModel', uri)]_vars

====
